---- MODULE Spec2Model ----
(***************************************************************************)
(* Four-bar linkage simulator (functions.py): the validity check           *)
(* check_valid, the angle solver calculate_linkage and the interactive     *)
(* orchestrator four_bar_linkage.                                          *)
(*                                                                         *)
(* Numbers.  Lengths are integers.  Angles are whole degrees.  A           *)
(* trigonometric value or a ratio of lengths is a fixed-point integer in   *)
(* units of 1/Scale.  math.sin / math.cos are a table of sin(0..90) with   *)
(* the usual symmetries; math.acos / math.asin invert the table and raise  *)
(* outside [-1, 1] as Python does.  scipy.optimize.fsolve is a library     *)
(* call: it is modelled by what it returns, the angle where the residual   *)
(* of Freudenstein's equation crosses zero nearest to the initial guess,   *)
(* or, when there is no such angle, the angle of least residual (fsolve    *)
(* then only emits a warning and returns its last iterate).                *)
(***************************************************************************)
EXTENDS Integers, Sequences, FiniteSets

\* ---------------------------------------------------------------- bounds
\* largest length a user types
MaxLen == 3

\* range(0, 361): the last driving angle of the solve loop
LastTheta2 == 360

\* ------------------------------------------------------------ user input
\* what input() can return: a numeral (zero and negative included) or text
\* that float() rejects
Numeral(v) == [num |-> TRUE, val |-> v]

NonNumeric == [num |-> FALSE, val |-> 0]

Inputs == {Numeral(v) : v \in (-1)..MaxLen} \cup {NonNumeric}

\* float(s): the value of a numeral; raises ValueError on other text
FloatRaises(s) == ~s.num

float(s) == s.val

\* ---------------------------------------------------------- list helpers
Abs(x) == IF x < 0 THEN -x ELSE x

\* del links[pos]  (pos is a 0-based Python index)
Del(s, pos) == [i \in 1..(Len(s) - 1) |-> IF i <= pos THEN s[i] ELSE s[i + 1]]

\* max(links), min(links)
ListMax(s) == CHOOSE m \in {s[i] : i \in 1..Len(s)} : \A i \in 1..Len(s) : s[i] <= m

ListMin(s) == CHOOSE m \in {s[i] : i \in 1..Len(s)} : \A i \in 1..Len(s) : m <= s[i]

\* links.index(v): 0-based position of the first occurrence
Index(s, v) == (CHOOSE i \in 1..Len(s) : s[i] = v /\ \A j \in 1..(i - 1) : s[j] # v) - 1

\* sum(list)
RECURSIVE Sum(_)
Sum(s) == IF s = <<>> THEN 0 ELSE s[1] + Sum(Tail(s))

\* ----------------------------------------------------------- check_valid
\* the two links left when the extremes are removed by value: every link equal
\* to the minimum or to the maximum goes
OthersByValue(l1, l2, l3, l4) ==
    LET links == <<l1, l2, l3, l4>>
    IN  SelectSeq(links, LAMBDA x : x # ListMax(links) /\ x # ListMin(links))

\* the two links left when the second deletion forgets that the first one
\* shifted the list
OthersNoShift(l1, l2, l3, l4) ==
    LET links   == <<l1, l2, l3, l4>>
        pos_max == Index(links, ListMax(links))
        pos_min == Index(links, ListMin(links))
    IN  Del(Del(links, pos_max), pos_min)

\* the two links left after the deletions of lines 49-55
Others(l1, l2, l3, l4) ==
    LET links   == <<l1, l2, l3, l4>>
        pos_max == Index(links, ListMax(links))
        pos_min == Index(links, ListMin(links))
        links1  == Del(links, pos_max)
    IN  IF pos_max < pos_min THEN Del(links1, pos_min - 1) ELSE Del(links1, pos_min)

check_valid(l1, l2, l3, l4) ==
    LET links   == <<l1, l2, l3, l4>>
        min_max == <<ListMin(links), ListMax(links)>>
    IN  Sum(min_max) <= Sum(Others(l1, l2, l3, l4))

\* ------------------------------------------------- math.sin, math.cos ...
\* sin(d degrees) in units of 1/Scale, d = 0..90
SinTab ==
    <<0, 175, 349, 523, 698, 872, 1045, 1219, 1392, 1564,
       1736, 1908, 2079, 2250, 2419, 2588, 2756, 2924, 3090, 3256,
       3420, 3584, 3746, 3907, 4067, 4226, 4384, 4540, 4695, 4848,
       5000, 5150, 5299, 5446, 5592, 5736, 5878, 6018, 6157, 6293,
       6428, 6561, 6691, 6820, 6947, 7071, 7193, 7314, 7431, 7547,
       7660, 7771, 7880, 7986, 8090, 8192, 8290, 8387, 8480, 8572,
       8660, 8746, 8829, 8910, 8988, 9063, 9135, 9205, 9272, 9336,
       9397, 9455, 9511, 9563, 9613, 9659, 9703, 9744, 9781, 9816,
       9848, 9877, 9903, 9925, 9945, 9962, 9976, 9986, 9994, 9998,
       10000 >>

\* the fixed-point unit: the table's value of sin(90 degrees) = 1
Scale == SinTab[91]

\* math.sin(math.radians(d))
Sin(d) ==
    LET a == d % 360
    IN  IF a <= 90 THEN SinTab[a + 1]
        ELSE IF a <= 180 THEN SinTab[180 - a + 1]
        ELSE IF a <= 270 THEN -SinTab[a - 180 + 1]
        ELSE -SinTab[360 - a + 1]

\* math.cos(math.radians(d))
Cos(d) == Sin(d + 90)

\* a / b rounded down, for b # 0
Quot(a, b) == IF b > 0 THEN a \div b ELSE (-a) \div (-b)

\* a / b for b # 0, in units of 1/Scale when a and b are in the same unit
Ratio(a, b) == Quot(a * Scale, b)

\* a / b raises ZeroDivisionError
DivRaises(b) == b = 0

\* math.acos(num / den), math.asin(num / den): ZeroDivisionError when den = 0,
\* ValueError ("math domain error") when the argument is outside [-1, 1]
ArcRaises(num, den) == den = 0 \/ Abs(num) > Abs(den)

\* math.degrees(math.acos(x)), x in units of 1/Scale, in whole degrees: the
\* first angle of lo..hi whose cosine is at most x (the cosine decreases over
\* 0..180), found by bisection
RECURSIVE AcosScan(_, _, _)
AcosScan(lo, hi, x) ==
    IF lo >= hi THEN lo
    ELSE LET mid == (lo + hi) \div 2
         IN  IF Cos(mid) <= x THEN AcosScan(lo, mid, x) ELSE AcosScan(mid + 1, hi, x)

AcosDeg(x) == AcosScan(0, 180, x)

\* math.asin(x), x in units of 1/Scale; the result is in RADIANS, in units of
\* 1/Scale (pi = 3.1416): the last angle of lo..hi whose sine is at most |x|
RECURSIVE AsinScan(_, _, _)
AsinScan(lo, hi, ax) ==
    IF lo >= hi THEN lo
    ELSE LET mid == (lo + hi + 1) \div 2
         IN  IF SinTab[mid + 1] <= ax THEN AsinScan(mid, hi, ax) ELSE AsinScan(lo, mid - 1, ax)

Asin(x) ==
    LET r == (AsinScan(0, 90, Abs(x)) * 31416) \div 180
    IN  IF x < 0 THEN -r ELSE r

\* ------------------------------------------------------ calculate_linkage
\* lines 93-95: the dimensionless parameters L1, L2, L3
ParamsRaise(l1, l2, l3, l4) == DivRaises(l4) \/ DivRaises(l2)

Params(l1, l2, l3, l4) ==
    [L1 |-> Ratio(l1, l4),
     L2 |-> Ratio(l1, l2),
     L3 |-> Ratio(l1 * l1 + l2 * l2 - l3 * l3 + l4 * l4, 2 * l2 * l4)]

\* lines 99-100: the arguments of the two acos calls, as numerator and
\* denominator
MinNum(l1, l2, l3, l4) == (l2 - l3) * (l2 - l3) - l1 * l1 - l4 * l4

MaxNum(l1, l2, l3, l4) == (l2 + l3) * (l2 + l3) - l1 * l1 - l4 * l4

BoundDen(l1, l2, l3, l4) == 2 * l1 * l4

\* the try block guarding only the first acos
BoundsRaiseMinOnly(l1, l2, l3, l4) ==
    ArcRaises(MinNum(l1, l2, l3, l4), BoundDen(l1, l2, l3, l4))

\* the try block of lines 98-100 raises (and the except returns False)
BoundsRaise(l1, l2, l3, l4) ==
    \/ ArcRaises(MinNum(l1, l2, l3, l4), BoundDen(l1, l2, l3, l4))
    \/ ArcRaises(MaxNum(l1, l2, l3, l4), BoundDen(l1, l2, l3, l4))

Theta4Min(l1, l2, l3, l4) == AcosDeg(Ratio(MinNum(l1, l2, l3, l4), BoundDen(l1, l2, l3, l4)))

Theta4Max(l1, l2, l3, l4) == AcosDeg(Ratio(MaxNum(l1, l2, l3, l4), BoundDen(l1, l2, l3, l4)))

\* lines 119-120: the residual of Freudenstein's equation, in units of 1/Scale
freudenstein(L, t2, t4) ==
    L.L3 + (L.L2 * Cos(t4)) \div Scale - (L.L1 * Cos(t2)) \div Scale - Cos(t2 - t4)

\* how far t is from the initial guess x0; of two angles equally far the one
\* above x0 counts as nearer
Far(x0, t) == IF t >= x0 THEN 2 * (t - x0) ELSE 2 * (x0 - t) + 1

\* the angle equal to t up to whole turns that lies within half a turn of x0
Near(x0, t) == x0 - 180 + ((t - x0 + 180) % 360)

\* In theta4 the residual is a constant plus a sinusoid of period 360: over
\* one turn it has one crest and one trough, half a turn apart, and at most
\* one zero on the way down and one on the way up.
\* Slope(t) > 0 while the crest is less than half a turn ahead of t.
Slope(L, t2, t) == freudenstein(L, t2, t + 90) - freudenstein(L, t2, t - 90)

\* the first angle of lo..hi where the slope is no longer positive (bisection)
RECURSIVE CrestScan(_, _, _, _)
CrestScan(L, t2, lo, hi) ==
    IF lo >= hi THEN lo
    ELSE LET mid == (lo + hi) \div 2
         IN  IF Slope(L, t2, mid) <= 0
             THEN CrestScan(L, t2, lo, mid)
             ELSE CrestScan(L, t2, mid + 1, hi)

\* the crest within half a turn of x0
Crest(L, t2, x0) ==
    IF Slope(L, t2, x0) > 0
    THEN CrestScan(L, t2, x0 + 1, x0 + 180)
    ELSE CrestScan(L, t2, x0 - 179, x0)

\* the first angle of lo..hi, on the way down from the crest, where the
\* residual is no longer positive (bisection)
RECURSIVE DownScan(_, _, _, _)
DownScan(L, t2, lo, hi) ==
    IF lo >= hi THEN lo
    ELSE LET mid == (lo + hi) \div 2
         IN  IF freudenstein(L, t2, mid) <= 0
             THEN DownScan(L, t2, lo, mid)
             ELSE DownScan(L, t2, mid + 1, hi)

\* the last angle of lo..hi, on the way up to the crest, where the residual is
\* not yet positive (bisection)
RECURSIVE UpScan(_, _, _, _)
UpScan(L, t2, lo, hi) ==
    IF lo >= hi THEN lo
    ELSE LET mid == (lo + hi + 1) \div 2
         IN  IF freudenstein(L, t2, mid) <= 0
             THEN UpScan(L, t2, mid, hi)
             ELSE UpScan(L, t2, lo, mid - 1)

\* of two neighbouring angles, the one where the residual is nearer to zero
Closer(L, t2, a, b) ==
    IF Abs(freudenstein(L, t2, a)) <= Abs(freudenstein(L, t2, b)) THEN a ELSE b

\* line 122: scipy.optimize.fsolve(freudenstein, x0).  x is the returned
\* angle: x0 itself when the residual is zero there, else the zero of the
\* residual nearest to x0, or, when the residual has no zero, the angle where
\* it is nearest to zero.  ier is MINPACK's status (1 = converged, 5 = no
\* progress), which fsolve only returns with full_output and otherwise turns
\* into a RuntimeWarning
fsolve(L, t2, x0) ==
    IF freudenstein(L, t2, x0) = 0 THEN [x |-> x0, ier |-> 1]
    ELSE LET crest  == Crest(L, t2, x0)
             trough == crest + 180
         IN  IF freudenstein(L, t2, crest) < 0
             THEN [x |-> Near(x0, crest), ier |-> 5]
             ELSE IF freudenstein(L, t2, trough) > 0
             THEN [x |-> Near(x0, trough), ier |-> 5]
             ELSE LET d  == DownScan(L, t2, crest, trough)
                      u  == UpScan(L, t2, crest - 180, crest)
                      z1 == Near(x0, IF d > crest THEN Closer(L, t2, d, d - 1) ELSE d)
                      z2 == Near(x0, IF u < crest THEN Closer(L, t2, u, u + 1) ELSE u)
                  IN  [x |-> IF Far(x0, z1) <= Far(x0, z2) THEN z1 ELSE z2, ier |-> 1]

\* lines 129-133: the argument of asin as numerator (in units of 1/Scale) and
\* denominator, the branch condition and the value appended to theta3
AsinNum(l2, l4, t2, t4) == l4 * Sin(t4) - l2 * Sin(t2)

\* an asin that clamps its argument instead of raising
Theta3NeverRaises(l2, l3, l4, t2, t4) == DivRaises(l3)

\* the try block of lines 127-133 raises (and the except returns False)
Theta3Raises(l2, l3, l4, t2, t4) == ArcRaises(AsinNum(l2, l4, t2, t4), l3 * Scale)

Theta3(l1, l2, l3, l4, t2, t4) ==
    LET a == Asin(Quot(AsinNum(l2, l4, t2, t4), l3))
    IN  IF l2 * Cos(360 - t2) > l1 * Scale - l4 * Cos(180 - t4)
        THEN 180 * Scale - a
        ELSE a

\* ------------------------------------------------------------------ state
VARIABLES
    pc,          \* where the program is: "collect", "check", "valid", "loop",
                 \* "render", "solved", "returned", "crashed"
    entered,     \* four_bar_linkage: l1, l2, l3, l4 as returned by input()
    validity,    \* four_bar_linkage: the last result of check_valid
    args,        \* calculate_linkage: its parameters l1, l2, l3, l4
    theta4_min,  \* calculate_linkage: locals of the running or last call
    theta4_max,
    theta2,
    theta4,
    theta3,
    linkage      \* the value calculate_linkage returned to four_bar_linkage

vars == <<pc, entered, validity, args, theta4_min, theta4_max, theta2, theta4, theta3, linkage>>

solver == <<args, theta4_min, theta4_max, theta2, theta4, theta3>>

\* the two kinds of value calculate_linkage returns: False, or the animation,
\* whose drawframe closes over the list theta4
Fault == [kind |-> "False", theta4 |-> <<>>]

Animation(t4) == [kind |-> "HTML", theta4 |-> t4]

\* if linkage:
Truthy(v) == v.kind = "HTML"

\* range(0, 360)
LoopDoneEarly(t2) == t2 >= LastTheta2 - 1

\* line 116: range(0, 361) is exhausted after the iteration for t2
LoopDone(t2) == t2 >= LastTheta2

\* lines 186-187: the ends of link 3 in frame n, <<x, y>> each, in units of
\* 1/Scale
drawframe(l1, l2, l4, t4, n) ==
    [tip2 |-> <<l2 * Cos(n), l2 * Sin(n)>>,
     tip4 |-> <<l1 * Scale + l4 * Cos(t4[n + 1]), l4 * Sin(t4[n + 1])>>]

Init ==
    /\ pc = "collect"
    /\ entered = <<>>
    /\ validity = "unset"
    /\ args = <<>>
    /\ theta4_min = 0
    /\ theta4_max = 0
    /\ theta2 = 0
    /\ theta4 = <<>>
    /\ theta3 = <<>>
    /\ linkage = [kind |-> "unset", theta4 |-> <<>>]

\* lines 252-270: the user types four lengths
Collect ==
    /\ pc = "collect"
    /\ \E s1 \in Inputs, s2 \in Inputs, s3 \in Inputs, s4 \in Inputs :
          entered' = <<s1, s2, s3, s4>>
    /\ pc' = "check"
    /\ UNCHANGED <<validity, solver, linkage>>

\* the check made, its result ignored
CheckValidNoGate ==
    /\ pc = "check"
    /\ IF \E i \in 1..4 : FloatRaises(entered[i])
       THEN /\ pc' = "crashed"
            /\ UNCHANGED validity
       ELSE LET v == check_valid(float(entered[1]), float(entered[2]),
                                 float(entered[3]), float(entered[4]))
            IN  /\ validity' = IF v THEN "True" ELSE "False"
                /\ pc' = "valid"
    /\ UNCHANGED <<entered, solver, linkage>>

\* lines 284-294: validity = check_valid(l1, l2, l3, l4); the float() calls of
\* lines 32-35 raise on text that is no number, which nothing catches
CheckValid ==
    /\ pc = "check"
    /\ IF \E i \in 1..4 : FloatRaises(entered[i])
       THEN /\ pc' = "crashed"
            /\ UNCHANGED validity
       ELSE LET v == check_valid(float(entered[1]), float(entered[2]),
                                 float(entered[3]), float(entered[4]))
            IN  /\ validity' = IF v THEN "True" ELSE "False"
                /\ pc' = IF v THEN "valid" ELSE "collect"
    /\ UNCHANGED <<entered, solver, linkage>>

\* lines 311-316 and 93-113: the call of calculate_linkage up to the loop.
\* A zero l4 or l2 raises ZeroDivisionError outside any try; a failing acos
\* returns False
CallSolver ==
    /\ pc = "valid"
    /\ LET l1 == float(entered[1])
           l2 == float(entered[2])
           l3 == float(entered[3])
           l4 == float(entered[4])
       IN  /\ args' = <<l1, l2, l3, l4>>
           /\ theta2' = 0
           /\ theta4' = <<>>
           /\ theta3' = <<>>
           /\ IF ParamsRaise(l1, l2, l3, l4)
              THEN /\ pc' = "crashed"
                   /\ UNCHANGED <<theta4_min, theta4_max, linkage>>
              ELSE IF BoundsRaise(l1, l2, l3, l4)
              THEN /\ pc' = "solved"
                   /\ linkage' = Fault
                   /\ UNCHANGED <<theta4_min, theta4_max>>
              ELSE /\ pc' = "loop"
                   /\ theta4_min' = Theta4Min(l1, l2, l3, l4)
                   /\ theta4_max' = Theta4Max(l1, l2, l3, l4)
                   /\ UNCHANGED linkage
    /\ UNCHANGED <<entered, validity>>

\* lines 116-143: one iteration of the loop over theta2
Iterate ==
    /\ pc = "loop"
    /\ LET l1  == args[1]
           l2  == args[2]
           l3  == args[3]
           l4  == args[4]
           sol == fsolve(Params(l1, l2, l3, l4), theta2, theta4_max)
       IN  /\ theta4' = Append(theta4, sol.x)
           /\ IF Theta3Raises(l2, l3, l4, theta2, sol.x)
              THEN /\ pc' = "solved"
                   /\ linkage' = Fault
                   /\ UNCHANGED <<theta3, theta2>>
              ELSE /\ theta3' = Append(theta3, Theta3(l1, l2, l3, l4, theta2, sol.x))
                   /\ IF LoopDone(theta2)
                      THEN /\ theta2' = theta2
                           /\ pc' = "render"
                      ELSE /\ theta2' = theta2 + 1
                           /\ pc' = "loop"
                   /\ UNCHANGED linkage
    /\ UNCHANGED <<entered, validity, args, theta4_min, theta4_max>>

\* lines 145-211: the animation is built over theta4 and returned
Render ==
    /\ pc = "render"
    /\ linkage' = Animation(theta4)
    /\ pc' = "solved"
    /\ UNCHANGED <<entered, validity, solver>>

\* after False the solver is tried again on the same lengths
AfterSolveRetry ==
    /\ pc = "solved"
    /\ pc' = IF Truthy(linkage) THEN "returned" ELSE "valid"
    /\ args' = <<>>
    /\ theta4_min' = 0
    /\ theta4_max' = 0
    /\ theta2' = 0
    /\ theta4' = <<>>
    /\ theta3' = <<>>
    /\ UNCHANGED <<entered, validity, linkage>>

\* lines 319-322: the animation ends the program; False goes back to the
\* prompts.  The locals of the finished call are gone
AfterSolve ==
    /\ pc = "solved"
    /\ pc' = IF Truthy(linkage) THEN "returned" ELSE "collect"
    /\ args' = <<>>
    /\ theta4_min' = 0
    /\ theta4_max' = 0
    /\ theta2' = 0
    /\ theta4' = <<>>
    /\ theta3' = <<>>
    /\ UNCHANGED <<entered, validity, linkage>>

Next == Collect \/ CheckValid \/ CallSolver \/ Iterate \/ Render \/ AfterSolve

Spec == Init /\ [][Next]_vars

\* ================================================================ claims
\* the numbers typed, when all four entries are numerals
Vals(e) == <<e[1].val, e[2].val, e[3].val, e[4].val>>

AllNumeric(e) == Len(e) = 4 /\ \A i \in 1..4 : e[i].num

AllPositive(e) == AllNumeric(e) /\ \A i \in 1..4 : e[i].val > 0

\* check_valid has returned for the lengths now in `entered`
Checked == validity # "unset" /\ pc \in {"valid", "collect"} /\ AllNumeric(entered)

\* the Grashof condition on a multiset of four lengths: the smallest plus the
\* largest against the rest of the total
Smallest(v) == CHOOSE m \in {v[i] : i \in 1..4} : \A i \in 1..4 : m <= v[i]

Largest(v) == CHOOSE m \in {v[i] : i \in 1..4} : \A i \in 1..4 : m >= v[i]

Grashof(v) == Smallest(v) + Largest(v) <= (v[1] + v[2] + v[3] + v[4]) - Smallest(v) - Largest(v)

\* C1: for four positive lengths, ties for the minimum or the maximum included,
\* check_valid returns True exactly when min + max <= the sum of the two links
\* left when one minimum and one maximum are removed; exactly two links are
\* left; four equal lengths are valid.
C1_GrashofExact ==
    (Checked /\ AllPositive(entered)) =>
        LET v == Vals(entered)
        IN  /\ (validity = "True") <=> Grashof(v)
            /\ Len(Others(v[1], v[2], v[3], v[4])) = 2
            /\ (v[1] = v[2] /\ v[2] = v[3] /\ v[3] = v[4]) => validity = "True"

\* C1 witness: a valid set where three links tie for the maximum
C1_Witness ==
    /\ pc = "valid"
    /\ AllPositive(entered)
    /\ Cardinality({i \in 1..4 : entered[i].val = Largest(Vals(entered))}) = 3

\* the permutations of the four argument positions
Perms == {p \in [1..4 -> 1..4] : \A i, j \in 1..4 : p[i] = p[j] => i = j}

\* C2: check_valid gives the same result for every permutation of the four
\* positive lengths over the argument positions.
C2_PermutationInvariant ==
    (Checked /\ AllPositive(entered)) =>
        LET v == Vals(entered)
        IN  \A p \in Perms :
                check_valid(v[p[1]], v[p[2]], v[p[3]], v[p[4]]) = (validity = "True")

\* C2 witness: a rejected set whose links 1 and 3, and 2 and 4, differ
C2_Witness ==
    /\ pc = "collect"
    /\ validity = "False"
    /\ AllPositive(entered)
    /\ entered[1].val # entered[3].val
    /\ entered[2].val # entered[4].val

\* calculate_linkage has been called and has not yet returned to the prompts
InSolver == pc \in {"loop", "render", "solved"} \/ (pc = "crashed" /\ args # <<>>)

\* C3: calculate_linkage runs only after check_valid returned True for the
\* lengths last entered, and on exactly those lengths; after a False the solver
\* is not called and the program is back at the prompts.
C3_SolverOnlyAfterValid ==
    /\ InSolver =>
          /\ validity = "True"
          /\ AllNumeric(entered)
          /\ args = Vals(entered)
          /\ check_valid(args[1], args[2], args[3], args[4])
    /\ validity = "False" => (pc \in {"collect", "check", "crashed"} /\ args = <<>>)

\* C3 witness: the solve loop running on the entered lengths
C3_Witness == pc = "loop" /\ theta2 > 0 /\ validity = "True" /\ args = Vals(entered)

\* C4: neither check_valid nor calculate_linkage is ever called with a length
\* that is zero or negative.
C4_NoNonPositiveInCore ==
    /\ Checked => AllPositive(entered)
    /\ args # <<>> => \A i \in 1..4 : args[i] > 0

\* an argument num / den of acos or asin outside [-1, 1], den positive
OutsideUnit(num, den) == num > den \/ num < -den

\* the two Step-1 arguments of the running call, for positive lengths
Step1Outside ==
    LET l1 == args[1]
        l2 == args[2]
        l3 == args[3]
        l4 == args[4]
    IN  \/ OutsideUnit((l2 - l3) * (l2 - l3) - l1 * l1 - l4 * l4, 2 * l1 * l4)
        \/ OutsideUnit((l2 + l3) * (l2 + l3) - l1 * l1 - l4 * l4, 2 * l1 * l4)

ArgsPositive == args # <<>> /\ \A i \in 1..4 : args[i] > 0

\* C5: for positive valid lengths with a Step-1 acos argument outside [-1, 1],
\* calculate_linkage returns False before any per-angle solve, and neither
\* crashes nor computes a result.
C5_Step1Fault ==
    (ArgsPositive /\ Step1Outside) =>
        /\ pc = "solved"
        /\ linkage = Fault
        /\ theta4 = <<>>
        /\ theta3 = <<>>

\* C5 witness: a valid positive set rejected by Step 1
C5_Witness == pc = "solved" /\ validity = "True" /\ ArgsPositive /\ Step1Outside /\ linkage = Fault

\* the root-finder's status for the sample of driving angle t2 of the running
\* call, and the feasible bound of Step 1: between theta4_min and theta4_max,
\* whichever of the two is the larger (for positive lengths the acos of line 99
\* is never below that of line 100)
Converged(t2) == fsolve(Params(args[1], args[2], args[3], args[4]), t2, theta4_max).ier = 1

InBound(t4) ==
    \/ theta4_min <= t4 /\ t4 <= theta4_max
    \/ theta4_max <= t4 /\ t4 <= theta4_min

\* C6: a theta4 that the root-finder did not converge to, or that lies outside
\* the bound of Step 1, is never passed on to the theta3 computation, stored in
\* the profile or rendered (the solve ends with the fault instead).
C6_OnlyConvergedInProfile ==
    ArgsPositive =>
        /\ \A i \in 1..Len(theta3) : Converged(i - 1) /\ InBound(theta4[i])
        /\ \A i \in 1..Len(linkage.theta4) : Converged(i - 1) /\ InBound(linkage.theta4[i])

\* the asin argument of the sample of driving angle t2 is outside [-1, 1]
AsinOutside(t2, t4) ==
    LET num == args[4] * Sin(t4) - args[2] * Sin(t2)
        den == args[3] * Scale
    IN  IF den > 0 THEN OutsideUnit(num, den) ELSE OutsideUnit(-num, -den)

\* the sample at index i of theta4 has its asin argument outside [-1, 1]
FaultySample(i) == args[3] # 0 /\ AsinOutside(i - 1, theta4[i])

\* C7: when the asin argument of a sample is outside [-1, 1] the call returns
\* False at once: that sample is the last one solved, no theta3 is stored for
\* it, and no sample is returned or rendered.  (The newest sample is examined
\* in every state, all of them once the loop is over.)
C7_AllOrNothing ==
    /\ (theta4 # <<>> /\ FaultySample(Len(theta4))) =>
          /\ pc = "solved"
          /\ linkage = Fault
          /\ Len(theta3) = Len(theta4) - 1
    /\ pc = "render" => \A i \in 1..Len(theta4) : ~FaultySample(i)
    /\ linkage.kind = "False" => linkage.theta4 = <<>>

\* C7 witness: a fault at a later angle, earlier samples already computed
C7_Witness ==
    /\ pc = "solved"
    /\ linkage = Fault
    /\ Len(theta4) > 1
    /\ args[3] # 0
    /\ AsinOutside(Len(theta4) - 1, theta4[Len(theta4)])

\* C8: after calculate_linkage returns False the orchestrator goes back to the
\* prompts; the solver is only ever entered from a fresh True of check_valid,
\* which only follows a check of newly entered lengths; and four_bar_linkage
\* returns only the animation.
C8_RestartOnFault ==
    /\ [](pc = "returned" => linkage.kind = "HTML")
    /\ [][/\ (pc = "solved" /\ linkage = Fault) => pc' = "collect"
          /\ (args = <<>> /\ args' # <<>>) => pc = "valid"
          /\ (pc # "valid" /\ pc' = "valid") => pc = "check"
          /\ (pc # "check" /\ pc' = "check") => pc = "collect"]_vars

\* C8 witness: back at the prompts after a fault
C8_Witness == pc = "collect" /\ linkage = Fault /\ validity = "True" /\ args = <<>>

\* the samples at index i of the two lists are the ones the code computes for
\* driving angle t2 in the running call
IsSampleOf(i, t2) ==
    LET x == fsolve(Params(args[1], args[2], args[3], args[4]), t2, theta4_max).x
    IN  /\ theta4[i] = x
        /\ theta3[i] = Theta3(args[1], args[2], args[3], args[4], t2, x)

\* C9: at the start of the iteration for theta2 = k both lists have length k,
\* the newest entry being the sample for k - 1; a solve that completes without
\* fault holds 361 samples, entry i being the sample for theta2 = i.
C9_Profile361 ==
    /\ pc = "loop" =>
          /\ Len(theta4) = theta2
          /\ Len(theta3) = theta2
          /\ theta2 > 0 => IsSampleOf(theta2, theta2 - 1)
    /\ pc = "render" =>
          /\ Len(theta4) = 361
          /\ Len(theta3) = 361
          /\ \A i \in 0..360 : IsSampleOf(i + 1, i)
    /\ linkage.kind = "HTML" => Len(linkage.theta4) = 361

\* C9 witness: a completed solve
C9_Witness == pc = "render" /\ Len(theta4) = 361 /\ Len(theta3) = 361

\* the squared distance between the tips of link 2 and link 4 in frame n, and
\* the squared length of link 3, both in units of 1/(Scale/10)^2
TipDistance2(n) ==
    LET f  == drawframe(args[1], args[2], args[4], theta4, n)
        dx == (f.tip4[1] - f.tip2[1]) \div 10
        dy == (f.tip4[2] - f.tip2[2]) \div 10
    IN  dx * dx + dy * dy

Link3Length2 == (args[3] * (Scale \div 10)) * (args[3] * (Scale \div 10))

\* the tolerance: what one whole degree of theta4 (1/57 radian) changes in the
\* squared distance
KinTol == (2 * args[3] * args[4] * (Scale \div 10) * (Scale \div 10)) \div 57

\* C10: in a completed solve of positive lengths the tips of link 2 and link 4
\* are l3 apart, within tolerance, at every sampled theta2.
C10_KinematicConsistency ==
    (pc = "render" /\ ArgsPositive) =>
        \A n \in 0..360 : Abs(TipDistance2(n) - Link3Length2) <= KinTol

====
